---------------------------- MODULE Spec2Model ----------------------------
(***************************************************************************)
(* Product sync job of scripts/reference/sync_trendyol_products.py:        *)
(* the page loop of main(), the catalog fetcher fetch_products_page(),     *)
(* the buybox enrichment fetch_buybox_info(), the inline status inference  *)
(* and the PostgreSQL sink upsert_products().                              *)
(*                                                                         *)
(* Python values are tagged records (PyNone, PyStr, PyInt, PyBool, PyDec); *)
(* a Python string is the sequence of its characters, so that str.strip()  *)
(* and Decimal(str) are computed and not assumed.  Prices are whole        *)
(* numbers of minor units; backoff delays are counted in tenths of a       *)
(* second so that 1.5 is the integer 15.                                   *)
(***************************************************************************)
EXTENDS Integers, Sequences, FiniteSets, TLC

\* ---------------------------------------------------------------- bounds
\* Largest --max-pages value a run is started with (0 .. MaxPagesArg).
MaxPagesArg == 2
\* Largest totalPages integer a catalog response carries (0 .. MaxTotalPages).
MaxTotalPages == 2

\* ------------------------------------------------------ program constants
\* range(3) of both retry loops.
MaxAttempts == 3
\* chunk_size of fetch_buybox_info.
chunk_size == 20
\* (attempt + 1) * 1.5 seconds, in tenths of a second.
BackoffStep == 15

\* ----------------------------------------------------------- Python values
PyNone == [ty |-> "none", s |-> <<>>, n |-> 0]
PyStr(chars) == [ty |-> "str", s |-> chars, n |-> 0]
PyInt(i) == [ty |-> "int", s |-> <<>>, n |-> i]
PyBool(b) == [ty |-> "bool", s |-> <<>>, n |-> IF b THEN 1 ELSE 0]
PyDec(i) == [ty |-> "dec", s |-> <<>>, n |-> i]
\* A JSON value that is neither null, string, number nor boolean (a mapping).
PyObj == [ty |-> "obj", s |-> <<>>, n |-> 1]

Digits == <<"0", "1", "2", "3", "4", "5", "6", "7", "8", "9">>

DigitChar(d) == Digits[d + 1]

IsDigit(c) == \E d \in 0..9 : Digits[d + 1] = c

DigitVal(c) == CHOOSE d \in 0..9 : Digits[d + 1] = c

RECURSIVE NatToChars(_)
NatToChars(i) == IF i < 10 THEN <<DigitChar(i)>>
                 ELSE NatToChars(i \div 10) \o <<DigitChar(i % 10)>>

\* bool(v)
Truthy(v) == CASE v.ty = "none" -> FALSE
               [] v.ty = "str" -> v.s /= <<>>
               [] v.ty = "obj" -> TRUE
               [] OTHER -> v.n /= 0

\* str(v)
str(v) == CASE v.ty = "str" -> v.s
            [] v.ty = "none" -> <<"N", "o", "n", "e">>
            [] v.ty = "bool" -> IF v.n = 1 THEN <<"T", "r", "u", "e">>
                                ELSE <<"F", "a", "l", "s", "e">>
            [] v.ty = "obj" -> <<"{", "}">>
            [] OTHER -> NatToChars(v.n)

RECURSIVE lstrip(_)
lstrip(chars) == IF chars /= <<>> /\ Head(chars) = " " THEN lstrip(Tail(chars))
                 ELSE chars

RECURSIVE rstrip(_)
rstrip(chars) == IF chars /= <<>> /\ chars[Len(chars)] = " "
                 THEN rstrip(SubSeq(chars, 1, Len(chars) - 1))
                 ELSE chars

\* str.strip()
strip(chars) == rstrip(lstrip(chars))

RECURSIVE CharsToNat(_)
CharsToNat(chars) == IF chars = <<>> THEN 0
                     ELSE 10 * CharsToNat(SubSeq(chars, 1, Len(chars) - 1))
                          + DigitVal(chars[Len(chars)])

\* Whether Decimal(chars) parses: surrounding whitespace is dropped and the
\* rest is a non-empty run of digits (the number syntax of the model's prices).
DecimalParses(chars) ==
    LET t == strip(chars)
    IN  t /= <<>> /\ \A i \in 1..Len(t) : IsDigit(t[i])

to_decimal(value) ==
    IF value = PyNone \/ value = PyStr(<<>>) THEN PyNone
    ELSE IF DecimalParses(str(value)) THEN PyDec(CharsToNat(strip(str(value))))
    ELSE PyNone


\* ------------------------------------------------------------ small helpers
Range(f) == {f[i] : i \in DOMAIN f}

RECURSIVE SelectSeqBy(_, _)
\* The subsequence of seq whose elements lie in the set keep.
SelectSeqBy(seq, keep) ==
    IF seq = <<>> THEN <<>>
    ELSE (IF Head(seq) \in keep THEN <<Head(seq)>> ELSE <<>>)
         \o SelectSeqBy(Tail(seq), keep)

RECURSIVE Dedup(_)
\* seq without repeated elements, first occurrences kept.
Dedup(seq) ==
    IF seq = <<>> THEN <<>>
    ELSE LET init == Dedup(SubSeq(seq, 1, Len(seq) - 1))
             last == seq[Len(seq)]
         IN  IF last \in Range(init) THEN init ELSE Append(init, last)

Reverse(seq) == [i \in 1..Len(seq) |-> seq[Len(seq) + 1 - i]]

Min(a, b) == IF a < b THEN a ELSE b

\* ------------------------------------------------------ catalog items (JSON)
\* One element of the catalog's content list.  A field the JSON lacks reads
\* as PyNone through item.get(); isDict is FALSE for an element that is not a
\* JSON object.  buybox_* are the keys main() adds to the item.
Item(code, stock, barcode, id, sale) ==
    [isDict |-> TRUE, productCode |-> code, stockCode |-> stock,
     barcode |-> barcode, id |-> id, salePrice |-> sale,
     buybox_price |-> PyNone, buybox_competitor_count |-> PyNone,
     buybox_status |-> PyNone]

NonDictItem == [Item(PyNone, PyNone, PyNone, PyNone, PyNone) EXCEPT !.isDict = FALSE]

ItemPlain == Item(PyStr(<<"P", "1">>), PyNone, PyStr(<<"B", "1">>), PyInt(1), PyInt(100))
\* Barcode with surrounding whitespace, no sale price.
ItemPadded == Item(PyStr(<<"P", "2">>), PyStr(<<"S", "2">>),
                   PyStr(<<" ", "B", "2", " ">>), PyNone, PyNone)
\* No key field at all, sale price that is not a number.
ItemNoKey == Item(PyNone, PyNone, PyNone, PyNone, PyStr(<<"a", "b", "c">>))
\* No key field, blank barcode, sale price 0.
ItemNoKeyZero == Item(PyStr(<<" ">>), PyStr(<<>>), PyStr(<<" ", " ">>), PyNone, PyInt(0))
\* Numeric barcode, key falls back to it; sale price a padded numeric string.
ItemIntBarcode == Item(PyNone, PyNone, PyInt(7), PyInt(4), PyStr(<<" ", "1", "2", " ">>))
\* Same product code as ItemPlain, empty-string sale price.
ItemPlainAgain == Item(PyStr(<<"P", "1">>), PyNone, PyStr(<<"B", "1">>), PyInt(1), PyStr(<<>>))

Letters == <<"a", "b", "c", "d", "e", "f", "g", "h", "i", "j", "k",
             "l", "m", "n", "o", "p", "q", "r", "s", "t", "u">>

\* A page with one more distinct barcode than a chunk holds.
PageBig == [i \in 1..(chunk_size + 1) |->
              Item(PyStr(<<"K", Letters[i]>>), PyNone, PyStr(<<"K", Letters[i]>>),
                   PyNone, PyInt(i))]

PageMixed == <<ItemPlain, ItemPadded, ItemNoKey>>
PageOdd == <<ItemIntBarcode, ItemNoKeyZero, ItemPlainAgain, ItemPlain>>
PageKeyless == <<ItemNoKey, ItemNoKeyZero>>
PageBadItem == <<ItemPlain, NonDictItem>>

\* The non-empty content lists the catalog answers with.
Pages == {PageMixed, PageOdd, PageKeyless, PageBadItem, PageBig}

\* The "content" field of a catalog payload:
\*   absent  the key is missing or null          list   a JSON array
\*   falsy   a non-list falsy value ({}, "", 0)  truthy a non-list truthy value
ContentFields ==
    {[kind |-> "absent", items |-> <<>>],
     [kind |-> "falsy", items |-> <<>>],
     [kind |-> "truthy", items |-> <<>>],
     [kind |-> "list", items |-> <<>>]}
    \cup {[kind |-> "list", items |-> p] : p \in Pages}

\* The "totalPages" field: missing, an integer, or a string.
TotalPagesFields == {PyNone, PyStr(<<"1">>)} \cup {PyInt(t) : t \in 0..MaxTotalPages}

\* A response of the catalog endpoint.  exc: session.get() raised (timeout,
\* connection error); jsonOk: response.json() parses; isDict: the body is a
\* JSON object.
CatalogResponse(exc, status, jsonOk, isDict, content, totalPages) ==
    [exc |-> exc, status |-> status, jsonOk |-> jsonOk, isDict |-> isDict,
     content |-> content, totalPages |-> totalPages]

NoContent == [kind |-> "absent", items |-> <<>>]

CatalogResponses ==
    {CatalogResponse(TRUE, 0, FALSE, FALSE, NoContent, PyNone)}
    \cup {CatalogResponse(FALSE, st, FALSE, FALSE, NoContent, PyNone) :
             st \in {429, 401, 403, 404, 500}}
    \cup {CatalogResponse(FALSE, 200, FALSE, FALSE, NoContent, PyNone),
          CatalogResponse(FALSE, 200, TRUE, FALSE, NoContent, PyNone)}
    \cup {CatalogResponse(FALSE, 200, TRUE, TRUE, c, t) :
             c \in ContentFields, t \in TotalPagesFields}

\* ------------------------------------------------- buybox entries (JSON)
\* One element of a buybox-information response.  isDict is FALSE for an
\* element that is not a JSON object (entry.get raises on it).
Entry(barcode, price, multi, order) ==
    [isDict |-> TRUE, barcode |-> barcode, buyboxPrice |-> price,
     hasMultipleSeller |-> multi, buyboxOrder |-> order]

NonDictEntry == [Entry(PyNone, PyNone, PyNone, PyNone) EXCEPT !.isDict = FALSE]

\* The (buyboxPrice, hasMultipleSeller, buyboxOrder) triples of the entries, in
\* a fixed order: price present or missing, flag true, false or missing, order
\* 1, 2 or missing, and last one entry whose price is not a number.
EntryVariants ==
    LET prices == <<PyInt(95), PyNone>>
        flags == <<PyBool(TRUE), PyBool(FALSE), PyNone>>
        orders == <<PyInt(1), PyInt(2), PyNone>>
        n == Len(prices) * Len(flags) * Len(orders)
    IN  [k \in 1..n |->
            [price |-> prices[((k - 1) % Len(prices)) + 1],
             multi |-> flags[(((k - 1) \div Len(prices)) % Len(flags)) + 1],
             order |-> orders[((k - 1) \div (Len(prices) * Len(flags))) + 1]]]
        \o <<[price |-> PyStr(<<"n", "a">>), multi |-> PyBool(TRUE), order |-> PyInt(1)]>>

\* The variant of the i-th entry of a response that starts the list at shift.
VariantAt(shift, i) == EntryVariants[((i - 1 + shift) % Len(EntryVariants)) + 1]

\* The starting points of the full responses.
Shifts == {0, 5, 11}

EntryFor(chars, v) == Entry(PyStr(chars), v.price, v.multi, v.order)

VariantWin == [price |-> PyInt(95), multi |-> PyBool(FALSE), order |-> PyInt(1)]
VariantLose == [price |-> PyInt(80), multi |-> PyBool(TRUE), order |-> PyInt(2)]

\* A response of the buybox-information endpoint.  exc: session.post() raised;
\* shape: the JSON body is a mapping ("dict"), an array ("list") or anything
\* else ("other"); info: the mapping's buyboxInfo is missing ("absent"), null
\* ("null") or an array ("list"); entries: the array's elements in order.
BuyboxResponse(exc, status, jsonOk, shape, info, entries) ==
    [exc |-> exc, status |-> status, jsonOk |-> jsonOk, shape |-> shape,
     info |-> info, entries |-> entries]

BuyboxFailure(exc, status) == BuyboxResponse(exc, status, FALSE, "other", "absent", <<>>)

\* The responses to the request for chunk (a non-empty sequence of barcodes).
BuyboxResponses(chunk) ==
    LET first == chunk[1]
        last == chunk[Len(chunk)]
        foreign == Entry(PyStr(<<"Z", "9">>), PyInt(70), PyBool(TRUE), PyInt(2))
        numeric == Entry(PyInt(7), PyInt(60), PyBool(FALSE), PyInt(1))
        unnamed == Entry(PyNone, PyInt(50), PyBool(TRUE), PyInt(1))
        again == Entry(PageBig[1].barcode, PyInt(60), PyBool(TRUE), PyInt(2))
    IN  {BuyboxFailure(TRUE, 0)}
        \cup {BuyboxFailure(FALSE, st) : st \in {429, 401, 403, 400, 500}}
        \cup {BuyboxFailure(FALSE, 200)}
        \cup {BuyboxResponse(FALSE, 200, TRUE, "dict", "list",
                             [i \in 1..Len(chunk) |->
                                 EntryFor(chunk[i], VariantAt(shift, i))]) :
                 shift \in Shifts}
        \cup {BuyboxResponse(FALSE, 200, TRUE, "list", "absent", es) :
                 es \in {<<EntryFor(first, VariantLose)>>,
                         <<EntryFor(last, VariantLose), EntryFor(last, VariantWin)>>,
                         <<unnamed, EntryFor(first, VariantWin)>>,
                         <<EntryFor(first, VariantWin), NonDictEntry,
                           EntryFor(last, VariantLose)>>,
                         <<foreign, numeric, again>>}}
        \cup {BuyboxResponse(FALSE, 200, TRUE, "dict", "absent", <<>>),
              BuyboxResponse(FALSE, 200, TRUE, "dict", "null", <<>>),
              BuyboxResponse(FALSE, 200, TRUE, "other", "absent", <<>>)}

\* ------------------------------------------------------- fetch_buybox_info
EmptyMap == [k \in {} |-> NonDictEntry]

MapPut(m, key, value) ==
    [k \in DOMAIN m \cup {key} |-> IF k = key THEN value ELSE m[k]]

\* barcodes = [str(item.get("barcode")) for item in content if item.get("barcode")]
RECURSIVE BarcodesOf(_)
BarcodesOf(items) ==
    IF items = <<>> THEN <<>>
    ELSE (IF Truthy(Head(items).barcode) THEN <<str(Head(items).barcode)>> ELSE <<>>)
         \o BarcodesOf(Tail(items))

RECURSIVE StripAll(_)
\* str(b).strip() for b in barcodes if b and str(b).strip()
StripAll(barcodes) ==
    IF barcodes = <<>> THEN <<>>
    ELSE (IF Head(barcodes) /= <<>> /\ strip(Head(barcodes)) /= <<>>
          THEN <<strip(Head(barcodes))>> ELSE <<>>)
         \o StripAll(Tail(barcodes))

\* list(set(...)): the distinct identifiers in one of the orders the set
\* iteration can give (two of them: first occurrence order and its reverse).
UniqueBarcodeOrders(barcodes) ==
    LET d == Dedup(StripAll(barcodes)) IN {d, Reverse(d)}

\* A slice that runs one element into the next chunk (i:i + chunk_size + 1).
ChunkAtOverlapping(unique, i) == SubSeq(unique, i + 1, Min(i + chunk_size + 1, Len(unique)))

\* unique_barcodes[i:i + chunk_size], i counted from 0.
ChunkAt(unique, i) == SubSeq(unique, i + 1, Min(i + chunk_size, Len(unique)))

RECURSIVE StoreEntriesFirstWins(_, _)
\* StoreEntries that keeps the entry a barcode already has (setdefault).
StoreEntriesFirstWins(results, entries) ==
    IF entries = <<>> THEN [map |-> results, raised |-> FALSE]
    ELSE LET entry == Head(entries) IN
         IF ~entry.isDict THEN [map |-> results, raised |-> TRUE]
         ELSE StoreEntriesFirstWins(
                  IF Truthy(entry.barcode) /\ entry.barcode \notin DOMAIN results
                  THEN MapPut(results, entry.barcode, entry)
                  ELSE results,
                  Tail(entries))

RECURSIVE StoreEntries(_, _)
\* for entry in entries: bc = entry.get("barcode"); if bc: all_results[bc] = entry
\* raised: an element was no mapping, the loop stopped there with what it had stored.
StoreEntries(results, entries) ==
    IF entries = <<>> THEN [map |-> results, raised |-> FALSE]
    ELSE LET entry == Head(entries) IN
         IF ~entry.isDict THEN [map |-> results, raised |-> TRUE]
         ELSE StoreEntries(IF Truthy(entry.barcode)
                           THEN MapPut(results, entry.barcode, entry)
                           ELSE results,
                           Tail(entries))

\* The delay computed from the attempt index itself (attempt * 1.5).
BackoffDelayFromZero(attempt) == attempt * BackoffStep

\* (attempt + 1) * 1.5
BackoffDelay(attempt) == (attempt + 1) * BackoffStep

\* -------------------------------------------------- the inference of main()
WIN == PyStr(<<"W", "I", "N">>)
LOSE == PyStr(<<"L", "O", "S", "E">>)
UNKNOWN == PyStr(<<"U", "N", "K", "N", "O", "W", "N">>)

\* bc = str(item.get("barcode")) if item.get("barcode") else None
LookupKey(item) == IF Truthy(item.barcode) THEN PyStr(str(item.barcode)) ELSE PyNone

\* bc and bc in buybox_map
HasEntry(item, buybox_map) ==
    Truthy(LookupKey(item)) /\ LookupKey(item) \in DOMAIN buybox_map

\* order == 1 that also takes a missing order for the first place.
EqualsOneOrMissing(v) == v.ty = "none" \/ (v.ty \in {"int", "bool", "dec"} /\ v.n = 1)

\* order == 1
EqualsOne(v) == v.ty \in {"int", "bool", "dec"} /\ v.n = 1

\* InferItem that sets the competitor count to 0 on both no-entry branches.
InferItemCountsUnknown(item, buybox_map) ==
    LET sale_price == to_decimal(item.salePrice) IN
    IF HasEntry(item, buybox_map)
    THEN LET entry == buybox_map[LookupKey(item)] IN
         [item EXCEPT !.buybox_price = entry.buyboxPrice,
                      !.buybox_competitor_count =
                          IF Truthy(entry.hasMultipleSeller) THEN PyInt(2) ELSE PyInt(1),
                      !.buybox_status = IF EqualsOne(entry.buyboxOrder) THEN WIN ELSE LOSE]
    ELSE IF sale_price /= PyNone
         THEN [item EXCEPT !.buybox_competitor_count = PyInt(0),
                           !.buybox_status = WIN,
                           !.buybox_price = sale_price]
         ELSE [item EXCEPT !.buybox_competitor_count = PyInt(0),
                           !.buybox_status = UNKNOWN]

\* The body of "for item in content" in main(): the three keys it sets.
InferItem(item, buybox_map) ==
    LET sale_price == to_decimal(item.salePrice) IN
    IF HasEntry(item, buybox_map)
    THEN LET entry == buybox_map[LookupKey(item)] IN
         [item EXCEPT !.buybox_price = entry.buyboxPrice,
                      !.buybox_competitor_count =
                          IF Truthy(entry.hasMultipleSeller) THEN PyInt(2) ELSE PyInt(1),
                      !.buybox_status = IF EqualsOne(entry.buyboxOrder) THEN WIN ELSE LOSE]
    ELSE IF sale_price /= PyNone
         THEN [item EXCEPT !.buybox_competitor_count = PyInt(0),
                           !.buybox_status = WIN,
                           !.buybox_price = sale_price]
         ELSE [item EXCEPT !.buybox_status = UNKNOWN]

InferAll(items, buybox_map) == [i \in 1..Len(items) |-> InferItem(items[i], buybox_map)]

\* ------------------------------------------------------------ the SQL texts
\* The column list of INSERT INTO trendyol_products ( ... ), as written.
UPSERT_SQL_Columns ==
    <<"seller_id", "product_code", "barcode", "stock_code", "title", "brand",
      "category_name", "quantity", "list_price", "sale_price", "approved",
      "on_sale", "archived", "rejected", "blacklisted", "rejected", "blacklisted",
      "buybox_price", "buybox_competitor_count", "buybox_status",
      "last_update_epoch_ms", "raw", "synced_at">>

\* The expressions of VALUES ( ... ), as written.
UPSERT_SQL_Values ==
    <<"seller_id", "product_code", "barcode", "stock_code", "title", "brand",
      "category_name", "quantity", "list_price", "sale_price", "approved",
      "on_sale", "archived", "rejected", "blacklisted", "blacklisted",
      "buybox_price", "buybox_competitor_count", "buybox_status",
      "last_update_epoch_ms", "raw", "NOW()">>

\* The columns assigned by ON CONFLICT ... DO UPDATE SET, as written.
UPSERT_SQL_Set ==
    <<"barcode", "stock_code", "title", "brand", "category_name", "quantity",
      "list_price", "sale_price", "approved", "on_sale", "archived", "rejected",
      "blacklisted", "rejected", "blacklisted", "buybox_price",
      "buybox_competitor_count", "buybox_status", "last_update_epoch_ms", "raw",
      "synced_at">>

\* The column definitions of CREATE TABLE IF NOT EXISTS trendyol_products.
CREATE_TABLE_SQL_Columns ==
    <<"seller_id", "product_code", "barcode", "stock_code", "title", "brand",
      "category_name", "quantity", "list_price", "sale_price", "approved",
      "on_sale", "archived", "rejected", "blacklisted", "rejected", "blacklisted",
      "buybox_price", "buybox_competitor_count", "buybox_status",
      "last_update_epoch_ms", "raw", "synced_at">>

NoDuplicates(seq) == \A i, j \in 1..Len(seq) : i /= j => seq[i] /= seq[j]

\* Whether the server executes the upsert statement: PostgreSQL rejects an
\* INSERT that names a column twice or has fewer expressions than target
\* columns, and a SET list that assigns a column twice.
UpsertAccepted ==
    /\ NoDuplicates(UPSERT_SQL_Columns)
    /\ Len(UPSERT_SQL_Values) = Len(UPSERT_SQL_Columns)
    /\ NoDuplicates(UPSERT_SQL_Set)

\* Whether the server executes CREATE_TABLE_SQL: with the table present, IF NOT
\* EXISTS skips the definition; otherwise a column defined twice is an error.
CreateTableAccepted(exists) == exists \/ NoDuplicates(CREATE_TABLE_SQL_Columns)

\* ----------------------------------------------------------- upsert_products
\* product_code_from_item that tests the value's truth ("if value:").
product_code_from_item_if_value(item) ==
    LET keys == <<item.productCode, item.stockCode, item.barcode, item.id>>
        good == {i \in 1..4 : Truthy(keys[i])}
    IN  IF good = {} THEN PyNone
        ELSE PyStr(str(keys[CHOOSE i \in good : \A j \in good : i <= j]))

\* for key in ("productCode", "stockCode", "barcode", "id"): the first value
\* that is not None and not blank, as a string.
product_code_from_item(item) ==
    LET keys == <<item.productCode, item.stockCode, item.barcode, item.id>>
        good == {i \in 1..4 : keys[i] /= PyNone /\ strip(str(keys[i])) /= <<>>}
    IN  IF good = {} THEN PyNone
        ELSE PyStr(str(keys[CHOOSE i \in good : \A j \in good : i <= j]))

\* The parameter mapping appended to rows for one item.
RowOf(item) ==
    [product_code |-> product_code_from_item(item),
     barcode |-> item.barcode,
     stock_code |-> item.stockCode,
     sale_price |-> to_decimal(item.salePrice),
     buybox_price |-> to_decimal(item.buybox_price),
     buybox_competitor_count |-> item.buybox_competitor_count,
     buybox_status |-> item.buybox_status]

RECURSIVE RowsOf(_)
\* rows: one mapping per item that has a product code, in item order.
RowsOf(items) ==
    IF items = <<>> THEN <<>>
    ELSE (IF Truthy(product_code_from_item(Head(items)))
          THEN <<RowOf(Head(items))>> ELSE <<>>)
         \o RowsOf(Tail(items))

RECURSIVE ApplyRows(_, _)
\* INSERT ... ON CONFLICT (seller_id, product_code) DO UPDATE, row after row:
\* table maps a product code to the row stored for it.
ApplyRows(table, rows) ==
    IF rows = <<>> THEN table
    ELSE ApplyRows(MapPut(table, Head(rows).product_code, Head(rows)), Tail(rows))

\* ------------------------------------------------------------------ state
VARIABLES
    dry_run,          \* args.dry_run
    max_pages,        \* args.max_pages
    tableExists,      \* whether trendyol_products exists when the run starts
    pc,               \* "start", "fetch", "enrich", "infer", "persist", "DONE", "FAILED"
    page,             \* page of main()
    attempt,          \* attempt of the retry loop in progress, or of the last one
    delays,           \* the time.sleep() arguments of that call, in order
    tries,            \* the requests that call has issued
    content,          \* content of main(): the items of the current page
    total_pages,      \* total_pages of main()
    unique_barcodes,  \* unique_barcodes of fetch_buybox_info
    sent,             \* the chunks a request of that call carried, in order
    chunk_i,          \* i of fetch_buybox_info's chunk loop
    all_results,      \* all_results of fetch_buybox_info; buybox_map once it returned
    upserted,         \* upserted of main()
    exit_code,        \* the value main() returns; -1 while it runs
    db_conn,          \* db_conn of main(): "None", "open" or "closed"
    store,            \* the committed rows of trendyol_products
    txn,              \* the rows as the open transaction sees them
    db_ops,           \* the calls made on the connection, in order
    requested,        \* the page indices a catalog request was issued for
    last_response,    \* the last HTTP response and the endpoint that gave it
    failed_at,        \* the step whose exception ended the run; "none" otherwise
    probe             \* one call of product_code_from_item: its item and its result

inputs == <<dry_run, max_pages, tableExists>>
locals == <<content, total_pages, unique_barcodes, sent, chunk_i, all_results>>
retry == <<attempt, delays, tries>>
database == <<db_conn, store, txn, db_ops>>
vars == <<dry_run, max_pages, tableExists, pc, page, attempt, delays, tries, content,
          total_pages, unique_barcodes, sent, chunk_i, all_results, upserted, exit_code,
          db_conn, store, txn, db_ops, requested, last_response, failed_at, probe>>

\* A row written by an earlier owner of the table.
OldRow ==
    [product_code |-> PyStr(<<"P", "1">>), barcode |-> PyStr(<<"B", "1">>),
     stock_code |-> PyNone, sale_price |-> PyDec(90), buybox_price |-> PyDec(85),
     buybox_competitor_count |-> PyInt(2), buybox_status |-> LOSE]

\* No call of product_code_from_item is under study.
NoProbe == [item |-> NonDictItem, key |-> PyNone, called |-> FALSE]

\* main() has not started: its locals as it sets them first.
BeforeRun ==
    /\ txn = store
    /\ pc = "start"
    /\ page = 0
    /\ attempt = 0
    /\ delays = <<>>
    /\ tries = 0
    /\ content = <<>>
    /\ total_pages = PyNone
    /\ unique_barcodes = <<>>
    /\ sent = <<>>
    /\ chunk_i = 0
    /\ all_results = EmptyMap
    /\ upserted = 0
    /\ exit_code = -1
    /\ db_conn = "None"
    /\ db_ops = <<>>
    /\ requested = {}
    /\ last_response = [endpoint |-> "none", r |-> BuyboxFailure(FALSE, 0)]
    /\ failed_at = "none"

Init ==
    /\ dry_run \in BOOLEAN
    /\ max_pages \in 0..MaxPagesArg
    /\ tableExists \in BOOLEAN
    /\ store \in IF tableExists
                 THEN {EmptyMap, MapPut(EmptyMap, OldRow.product_code, OldRow)}
                 ELSE {EmptyMap}
    /\ BeforeRun
    /\ probe = NoProbe

\* ------------------------------------------------------- the ends of main()
\* The except clause without its rollback: the connection is only closed.
FailWithoutRollback(where) ==
    /\ pc' = "FAILED"
    /\ exit_code' = 1
    /\ failed_at' = where
    /\ IF db_conn = "open"
       THEN /\ txn' = store
            /\ db_conn' = "closed"
            /\ db_ops' = db_ops
                         \o (IF where = "persist" THEN <<"executemany">> ELSE <<>>)
                         \o <<"close">>
       ELSE UNCHANGED <<txn, db_conn, db_ops>>
    /\ UNCHANGED store

\* except Exception: rollback when a connection exists, print, return 1;
\* finally: close the connection.  where = "persist": cur.executemany was
\* called on the connection and raised.
Fail(where) ==
    /\ pc' = "FAILED"
    /\ exit_code' = 1
    /\ failed_at' = where
    /\ IF db_conn = "open"
       THEN /\ txn' = store
            /\ db_conn' = "closed"
            /\ db_ops' = db_ops
                         \o (IF where = "persist" THEN <<"executemany">> ELSE <<>>)
                         \o <<"rollback", "close">>
       ELSE UNCHANGED <<txn, db_conn, db_ops>>
    /\ UNCHANGED store

\* The loop was left by break or by its condition: finally closes, return 0.
Finish ==
    /\ pc' = "DONE"
    /\ exit_code' = 0
    /\ failed_at' = failed_at
    /\ IF db_conn = "open"
       THEN /\ db_conn' = "closed"
            /\ db_ops' = Append(db_ops, "close")
       ELSE UNCHANGED <<db_conn, db_ops>>
    /\ UNCHANGED <<store, txn>>

\* while page < args.max_pages, evaluated with the page index next.
EnterLoop(next) ==
    IF next < max_pages
    THEN /\ pc' = "fetch"
         /\ UNCHANGED <<exit_code, failed_at, database>>
    ELSE Finish

\* ------------------------------------------------------------- the set-up
\* if not args.dry_run: connect, ensure_schema, commit; return 1 on an exception.
Connect ==
    /\ pc = "start"
    /\ UNCHANGED <<inputs, probe, page, retry, locals, upserted, requested, last_response>>
    /\ IF dry_run
       THEN EnterLoop(page)
       ELSE \E connected \in BOOLEAN :
              IF ~connected
              THEN /\ pc' = "FAILED"
                   /\ exit_code' = 1
                   /\ failed_at' = "connect"
                   /\ db_ops' = Append(db_ops, "connect")
                   /\ UNCHANGED <<db_conn, store, txn>>
              ELSE IF ~CreateTableAccepted(tableExists)
              THEN /\ pc' = "FAILED"
                   /\ exit_code' = 1
                   /\ failed_at' = "schema"
                   /\ db_conn' = "open"
                   /\ db_ops' = db_ops \o <<"connect", "create">>
                   /\ UNCHANGED <<store, txn>>
              ELSE /\ UNCHANGED <<store, txn, failed_at>>
                   /\ IF page < max_pages
                      THEN /\ pc' = "fetch"
                           /\ db_conn' = "open"
                           /\ db_ops' = db_ops \o <<"connect", "create", "commit">>
                           /\ UNCHANGED exit_code
                      ELSE /\ pc' = "DONE"
                           /\ exit_code' = 0
                           /\ db_conn' = "closed"
                           /\ db_ops' = db_ops \o <<"connect", "create", "commit", "close">>

\* ------------------------------------------------------ fetch_products_page
\* CatalogOutcome that also retries a server error (status >= 500).
CatalogOutcomeRetryServerError(r, att) ==
    IF r.exc THEN "raise"
    ELSE IF (r.status = 429 \/ r.status >= 500) /\ att < MaxAttempts - 1 THEN "retry"
    ELSE IF r.status \in {401, 403} THEN "raise"
    ELSE IF r.status >= 400 THEN "raise"
    ELSE IF ~r.jsonOk THEN "raise"
    ELSE IF ~r.isDict THEN "raise"
    ELSE "return"

\* What one pass of the retry loop does with the response: "retry" (sleep and
\* go round again), "raise" or "return" (the payload).
CatalogOutcome(r, att) ==
    IF r.exc THEN "raise"
    ELSE IF r.status = 429 /\ att < MaxAttempts - 1 THEN "retry"
    ELSE IF r.status \in {401, 403} THEN "raise"
    ELSE IF r.status >= 400 THEN "raise"
    ELSE IF ~r.jsonOk THEN "raise"
    ELSE IF ~r.isDict THEN "raise"
    ELSE "return"

\* content = data.get("content") or []
ContentOf(r) == IF r.content.kind = "list" THEN r.content.items ELSE <<>>

\* not isinstance(content, list), after the "or []"
ContentIsList(r) == r.content.kind /= "truthy"

\* A retry loop starts: attempt 0, nothing slept, nothing requested.
NewCall ==
    /\ attempt' = 0
    /\ delays' = <<>>
    /\ tries' = 0

\* The start of fetch_buybox_info for the page's items, up to its first
\* request: it returns {} at once when no identifier is left.
StartEnrich(items) ==
    /\ content' = items
    /\ sent' = <<>>
    /\ chunk_i' = 0
    /\ all_results' = EmptyMap
    /\ \E u \in UniqueBarcodeOrders(BarcodesOf(items)) :
          /\ unique_barcodes' = u
          /\ IF u = <<>>
             THEN /\ pc' = "infer"
                  /\ tries' = tries + 1
                  /\ UNCHANGED <<attempt, delays>>
             ELSE /\ pc' = "enrich"
                  /\ NewCall

\* One catalog request of the page loop and what main() does with its answer,
\* up to the first buybox request.
CatalogRequest ==
    /\ pc = "fetch"
    /\ UNCHANGED <<inputs, probe, page, upserted>>
    /\ requested' = requested \cup {page}
    /\ \E r \in CatalogResponses :
         /\ last_response' = [endpoint |-> "catalog", r |-> r]
         /\ IF CatalogOutcome(r, attempt) = "retry"
            THEN /\ delays' = Append(delays, BackoffDelay(attempt))
                 /\ attempt' = attempt + 1
                 /\ tries' = tries + 1
                 /\ UNCHANGED <<pc, locals, exit_code, failed_at, database>>
            ELSE IF CatalogOutcome(r, attempt) = "raise"
            THEN /\ Fail("fetch")
                 /\ tries' = tries + 1
                 /\ UNCHANGED <<attempt, delays, locals>>
            ELSE IF ~ContentIsList(r)
            THEN /\ Fail("content")
                 /\ tries' = tries + 1
                 /\ UNCHANGED <<attempt, delays, locals>>
            ELSE IF \E i \in 1..Len(ContentOf(r)) : ~ContentOf(r)[i].isDict
            THEN /\ Fail("item")
                 /\ tries' = tries + 1
                 /\ UNCHANGED <<attempt, delays, locals>>
            ELSE /\ total_pages' = r.totalPages
                 /\ StartEnrich(ContentOf(r))
                 /\ UNCHANGED <<exit_code, failed_at, database>>

\* ------------------------------------------------- fetch_buybox_info, a chunk
\* BuyboxOutcome that retries every error status, not only 429.
BuyboxOutcomeRetryErrors(r, att) ==
    IF r.exc THEN "skip"
    ELSE IF r.status >= 400 /\ att < MaxAttempts - 1 THEN "retry"
    ELSE IF r.status >= 400 THEN "skip"
    ELSE IF ~r.jsonOk THEN "skip"
    ELSE IF r.shape = "dict" /\ r.info = "null" THEN "skip"
    ELSE "store"

\* What one pass of a chunk's retry loop does with the response: "retry", or
\* "skip" (break with nothing stored), or "store" (read the entries).
BuyboxOutcome(r, att) ==
    IF r.exc THEN "skip"
    ELSE IF r.status = 429 /\ att < MaxAttempts - 1 THEN "retry"
    ELSE IF r.status >= 400 THEN "skip"
    ELSE IF ~r.jsonOk THEN "skip"
    ELSE IF r.shape = "dict" /\ r.info = "null" THEN "skip"
    ELSE "store"

\* entries: data.get("buyboxInfo", []) of a mapping, the list itself, else [].
EntriesOf(r) ==
    IF r.shape = "dict" THEN (IF r.info = "list" THEN r.entries ELSE <<>>)
    ELSE IF r.shape = "list" THEN r.entries
    ELSE <<>>

\* One buybox request for the chunk at chunk_i; the loop moves to the next
\* chunk unless the answer is a retried 429, and returns after the last one.
BuyboxRequest ==
    /\ pc = "enrich"
    /\ UNCHANGED <<inputs, probe, page, upserted, requested, content, total_pages,
                   unique_barcodes, exit_code, failed_at, database>>
    /\ sent' = IF attempt = 0 THEN Append(sent, ChunkAt(unique_barcodes, chunk_i)) ELSE sent
    /\ \E r \in BuyboxResponses(ChunkAt(unique_barcodes, chunk_i)) :
         /\ last_response' = [endpoint |-> "buybox", r |-> r]
         /\ IF BuyboxOutcome(r, attempt) = "retry"
            THEN /\ delays' = Append(delays, BackoffDelay(attempt))
                 /\ attempt' = attempt + 1
                 /\ tries' = tries + 1
                 /\ UNCHANGED <<pc, chunk_i, all_results>>
            ELSE /\ all_results' = IF BuyboxOutcome(r, attempt) = "store"
                                   THEN StoreEntries(all_results, EntriesOf(r)).map
                                   ELSE all_results
                 /\ chunk_i' = chunk_i + chunk_size
                 /\ IF chunk_i + chunk_size < Len(unique_barcodes)
                    THEN /\ pc' = "enrich"
                         /\ NewCall
                    ELSE /\ pc' = "infer"
                         /\ tries' = tries + 1
                         /\ UNCHANGED <<attempt, delays>>

\* --------------------------------------------------- main(), after enrichment
\* Infer without "if not content: break": an empty page goes on to persistence.
InferWithoutBreak ==
    /\ pc = "infer"
    /\ UNCHANGED <<inputs, probe, page, retry, upserted, requested, last_response,
                   total_pages, unique_barcodes, sent, chunk_i, all_results>>
    /\ content' = InferAll(content, all_results)
    /\ pc' = "persist"
    /\ UNCHANGED <<exit_code, failed_at, database>>

\* for item in content: ...; total_pages = ...; if not content: break
Infer ==
    /\ pc = "infer"
    /\ UNCHANGED <<inputs, probe, page, retry, upserted, requested, last_response,
                   total_pages, unique_barcodes, sent, chunk_i, all_results>>
    /\ content' = InferAll(content, all_results)
    /\ IF content = <<>>
       THEN Finish
       ELSE /\ pc' = "persist"
            /\ UNCHANGED <<exit_code, failed_at, database>>

\* isinstance(total_pages, int) and page + 1 >= total_pages
LastPage(tp, p) == tp.ty \in {"int", "bool"} /\ p + 1 >= tp.n

\* The locals of an iteration that is over are dead until the next iteration
\* assigns them: the model clears them.
ClearLocals ==
    /\ content' = <<>>
    /\ total_pages' = PyNone
    /\ unique_barcodes' = <<>>
    /\ sent' = <<>>
    /\ chunk_i' = 0
    /\ all_results' = EmptyMap

\* Advance with the loop condition off by one (page + 1 <= max_pages).
AdvanceOffByOne ==
    IF LastPage(total_pages, page)
    THEN /\ pc' = "DONE"
         /\ exit_code' = 0
         /\ UNCHANGED <<page, locals, retry>>
    ELSE /\ page' = page + 1
         /\ IF page + 1 <= max_pages
            THEN /\ pc' = "fetch"
                 /\ ClearLocals
                 /\ NewCall
                 /\ UNCHANGED exit_code
            ELSE /\ pc' = "DONE"
                 /\ exit_code' = 0
                 /\ UNCHANGED <<locals, retry>>

\* Advance that steps over a page (page += 2).
AdvanceSkippingPage ==
    IF LastPage(total_pages, page)
    THEN /\ pc' = "DONE"
         /\ exit_code' = 0
         /\ UNCHANGED <<page, locals, retry>>
    ELSE /\ page' = page + 2
         /\ IF page + 2 < max_pages
            THEN /\ pc' = "fetch"
                 /\ ClearLocals
                 /\ NewCall
                 /\ UNCHANGED exit_code
            ELSE /\ pc' = "DONE"
                 /\ exit_code' = 0
                 /\ UNCHANGED <<locals, retry>>

\* The rest of the loop body once the page is persisted: break on the last
\* page, else page += 1 and the loop condition.
Advance ==
    IF LastPage(total_pages, page)
    THEN /\ pc' = "DONE"
         /\ exit_code' = 0
         /\ UNCHANGED <<page, locals, retry>>
    ELSE /\ page' = page + 1
         /\ IF page + 1 < max_pages
            THEN /\ pc' = "fetch"
                 /\ ClearLocals
                 /\ NewCall
                 /\ UNCHANGED exit_code
            ELSE /\ pc' = "DONE"
                 /\ exit_code' = 0
                 /\ UNCHANGED <<locals, retry>>

\* Persist that empties the table before it loads the page's rows.
PersistReplacingTable ==
    /\ pc = "persist"
    /\ UNCHANGED <<inputs, probe, requested, last_response>>
    /\ LET rows == RowsOf(content)
           write == ~dry_run /\ db_conn /= "None"
       IN  IF write /\ rows /= <<>> /\ ~UpsertAccepted
           THEN /\ Fail("persist")
                /\ UNCHANGED <<page, upserted, locals, retry>>
           ELSE /\ Advance
                /\ upserted' = IF write THEN upserted + Len(rows) ELSE upserted
                /\ txn' = IF write THEN ApplyRows(EmptyMap, rows) ELSE txn
                /\ store' = IF write THEN txn' ELSE store
                /\ failed_at' = failed_at
                /\ db_conn' = IF pc' = "DONE" /\ db_conn = "open" THEN "closed" ELSE db_conn
                /\ db_ops' = db_ops
                             \o (IF write /\ rows /= <<>> THEN <<"executemany">> ELSE <<>>)
                             \o (IF write THEN <<"commit">> ELSE <<>>)
                             \o (IF pc' = "DONE" /\ db_conn = "open" THEN <<"close">> ELSE <<>>)

\* upsert_products and commit unless dry, then the way out of the loop body;
\* finally closes the connection when the run ends here.
Persist ==
    /\ pc = "persist"
    /\ UNCHANGED <<inputs, probe, requested, last_response>>
    /\ LET rows == RowsOf(content)
           write == ~dry_run /\ db_conn /= "None"
       IN  IF write /\ rows /= <<>> /\ ~UpsertAccepted
           THEN /\ Fail("persist")
                /\ UNCHANGED <<page, upserted, locals, retry>>
           ELSE /\ Advance
                /\ upserted' = IF write THEN upserted + Len(rows) ELSE upserted
                /\ txn' = IF write /\ rows /= <<>> THEN ApplyRows(txn, rows) ELSE txn
                /\ store' = IF write THEN txn' ELSE store
                /\ failed_at' = failed_at
                /\ db_conn' = IF pc' = "DONE" /\ db_conn = "open" THEN "closed" ELSE db_conn
                /\ db_ops' = db_ops
                             \o (IF write /\ rows /= <<>> THEN <<"executemany">> ELSE <<>>)
                             \o (IF write THEN <<"commit">> ELSE <<>>)
                             \o (IF pc' = "DONE" /\ db_conn = "open" THEN <<"close">> ELSE <<>>)

Next == Connect \/ CatalogRequest \/ BuyboxRequest \/ Infer \/ Persist

Spec == Init /\ [][Next]_vars

\* The run is one sequential process: whichever step is next is taken.
FairSpec == Spec /\ WF_vars(Next)

\* --------------------------------------- product_code_from_item on its own
\* The values of the four key fields of an item: missing or null, empty,
\* whitespace, or present (as text, padded text or a number, 0 included).
ProductCodeFields ==
    {PyNone, PyStr(<<>>), PyStr(<<" ">>), PyStr(<<"P">>), PyStr(<<" ", "P", " ">>)}
StockCodeFields == {PyNone, PyStr(<<>>), PyStr(<<" ", " ">>), PyStr(<<"S">>)}
BarcodeFields == {PyNone, PyStr(<<>>), PyStr(<<" ">>), PyStr(<<"B">>), PyInt(7)}
IdFields == {PyNone, PyStr(<<>>), PyStr(<<" ">>), PyInt(0), PyInt(4)}

KeyInit ==
    /\ probe \in {[item |-> Item(c, s, b, i, PyNone), key |-> PyNone, called |-> FALSE] :
                     c \in ProductCodeFields, s \in StockCodeFields,
                     b \in BarcodeFields, i \in IdFields}
    /\ dry_run = TRUE
    /\ max_pages = 0
    /\ tableExists = FALSE
    /\ store = EmptyMap
    /\ BeforeRun

\* product_code = product_code_from_item(item)
ResolveKey ==
    /\ ~probe.called
    /\ probe' = [probe EXCEPT !.key = product_code_from_item(probe.item),
                              !.called = TRUE]
    /\ UNCHANGED <<inputs, pc, page, retry, locals, upserted, exit_code, database,
                   requested, last_response, failed_at>>

KeyNext == ResolveKey

KeySpec == KeyInit /\ [][KeyNext]_vars

\* ------------------------------------------------------------------ claims
Terminal == pc \in {"DONE", "FAILED"}

\* The chunks fetch_buybox_info has still to request, the current one included.
ChunksLeft ==
    IF pc = "enrich"
    THEN (Len(unique_barcodes) - chunk_i + chunk_size - 1) \div chunk_size
    ELSE 0

\* More than the steps one page can take: a request per attempt of the fetch
\* and of every chunk of the largest page, the inference and the persistence.
PageWeight == MaxAttempts * (Len(PageBig) \div chunk_size + 2) + 3

\* A number that every step of the run makes smaller: the pages still allowed,
\* then the position inside the page, then the attempts left.
Measure ==
    IF pc = "start" THEN (max_pages + 1) * PageWeight + 1
    ELSE IF Terminal THEN 0
    ELSE (max_pages - page) * PageWeight
         + (CASE pc = "fetch" -> PageWeight - attempt
              [] pc = "enrich" -> 2 + MaxAttempts * ChunksLeft - attempt
              [] pc = "infer" -> 2
              [] pc = "persist" -> 1)

\* A step is possible: the run is at a request that has an answer to handle,
\* or at the inference or the persistence, which no condition holds back.
CanStep ==
    \/ pc = "start" /\ ENABLED Connect
    \/ pc = "fetch" /\ ENABLED CatalogRequest
    \/ pc = "enrich" /\ ENABLED BuyboxRequest
    \/ pc \in {"infer", "persist"}

\* C1: for every max_pages and every sequence of catalog responses, also when
\* none carries totalPages, a run requests only page indices below max_pages
\* (so at most max_pages of them) and ends DONE or FAILED: a step is always
\* possible until then, and every step lowers a natural number.
C1_BoundedPaging ==
    /\ [](/\ requested \subseteq 0..(max_pages - 1)
          /\ Cardinality(requested) <= max_pages
          /\ Measure >= 0
          /\ Terminal \/ CanStep)
    /\ [][Measure' < Measure]_vars

\* The loop ended on the max_pages bound alone: every allowed page was
\* requested, the last one was not empty and carried no totalPages.
C1_Witness ==
    /\ pc = "DONE"
    /\ max_pages = MaxPagesArg
    /\ requested = 0..(max_pages - 1)
    /\ total_pages = PyNone
    /\ content /= <<>>

\* The last response is an HTTP error status that ends its call: any status
\* from 400 on, except a 429 answered to the first or second request.
ErrorStatus(r, made) == ~r.exc /\ r.status >= 400 /\ ~(r.status = 429 /\ made < 3)

\* C4: a catalog fetch that ends in an error status (>= 400, a retryable 429
\* aside, or the third 429) fails the run: state FAILED with exit code 1, no
\* catalog or buybox request can follow, the transaction is rolled back (the
\* last calls on an open connection are rollback and close, straight after the
\* last commit, so nothing of the page was written) and no uncommitted row is
\* left.
C4_CatalogErrorFails ==
    (last_response.endpoint = "catalog" /\ ErrorStatus(last_response.r, tries))
    => /\ pc = "FAILED"
       /\ exit_code = 1
       /\ ~ENABLED CatalogRequest
       /\ ~ENABLED BuyboxRequest
       /\ txn = store
       /\ IF dry_run THEN db_ops = <<>> /\ db_conn = "None"
          ELSE /\ db_conn = "closed"
               /\ Len(db_ops) >= 3
               /\ SubSeq(db_ops, Len(db_ops) - 2, Len(db_ops))
                      = <<"commit", "rollback", "close">>

\* The second page's fetch got its third 429 in a run that writes.
C4_Witness ==
    /\ pc = "FAILED"
    /\ last_response.endpoint = "catalog"
    /\ last_response.r.status = 429
    /\ tries = 3
    /\ page = 1
    /\ ~dry_run

\* C5: a catalog fetch and a buybox chunk issue at most 3 requests each; a
\* further request follows only a 429 answered to the first or second one;
\* the k-th retry comes after exactly one sleep of 1.5 * k seconds (15 * k
\* tenths), so a call has slept once per retry and a third 429 adds neither a
\* sleep nor a request.
C5_RetryPolicy ==
    /\ tries <= 3
    /\ Len(delays) = attempt
    /\ Len(delays) <= 2
    /\ \A k \in 1..Len(delays) : delays[k] = 15 * k
    /\ tries \in {Len(delays), Len(delays) + 1}
    /\ pc \in {"fetch", "enrich"} => tries = Len(delays)
    /\ (pc \in {"fetch", "enrich"} /\ tries > 0)
           => ~last_response.r.exc /\ last_response.r.status = 429
    /\ (Terminal \/ pc \in {"infer", "persist"}) /\ last_response.endpoint /= "none"
           => tries = Len(delays) + 1

\* 429, 429, success: the catalog fetch returned on its third request after
\* sleeping 1.5 and then 3.0 seconds.
C5_Witness ==
    /\ pc = "infer"
    /\ last_response.endpoint = "catalog"
    /\ last_response.r.status = 200
    /\ tries = 3
    /\ delays = <<15, 30>>

\* C6: a 401 or 403 answer of the catalog endpoint or of the buybox endpoint
\* is fatal and not retried: the run is FAILED with exit code 1.
C6_AuthFailureIsFatal ==
    (last_response.endpoint /= "none" /\ ~last_response.r.exc
        /\ last_response.r.status \in {401, 403})
    => pc = "FAILED" /\ exit_code = 1

\* Every keyed record of the page has a row under its key in the table.
PagePersisted(items, table) ==
    \A i \in 1..Len(RowsOf(items)) :
        LET row == RowsOf(items)[i] IN
        row.product_code \in DOMAIN table

\* C3: after persisting a non-empty page p the next fetch is of page p + 1,
\* and it is issued exactly when p + 1 < max_pages and the response did not
\* carry an integer totalPages with p + 1 >= totalPages; the page itself is
\* persisted (the step does not fail, and a run that writes has the page's
\* rows in the store).
C3_NextPageRule ==
    [][pc = "persist" =>
         /\ pc' /= "FAILED"
         /\ (~dry_run => PagePersisted(content, store'))
         /\ (pc' = "fetch" /\ page' = page + 1)
                <=> (/\ page + 1 < max_pages
                     /\ ~(total_pages.ty = "int" /\ page + 1 >= total_pages.n))
         /\ pc' \in {"fetch", "DONE"}]_vars

\* A chunk's request failed: session.post raised, the status is an error other
\* than 429, or handling the answer raised (a body that is not JSON, a null
\* buyboxInfo, an element that is not an object).
ChunkFailed(r) ==
    \/ r.exc
    \/ r.status >= 400 /\ r.status /= 429
    \/ /\ r.status < 400
       /\ \/ ~r.jsonOk
          \/ r.shape = "dict" /\ r.info = "null"
          \/ \E i \in 1..Len(EntriesOf(r)) : ~EntriesOf(r)[i].isDict

\* C7: a chunk that fails by a non-429 error status or by an exception is
\* not retried and does not fail the enrichment call: the loop moves to the
\* next chunk (another request follows exactly when a chunk is left), no
\* sleep is made, every entry gathered before is kept, nothing is marked
\* failed; the call returns only after the last chunk, and the run goes from
\* there to inference and then to persistence of the page.
C7_FailedChunkKeepsEntries ==
    /\ [][(pc = "enrich" /\ ChunkFailed(last_response'.r)) =>
             /\ chunk_i' = chunk_i + 20
             /\ Len(delays') <= Len(delays)
             /\ \A k \in DOMAIN all_results :
                    k \in DOMAIN all_results' /\ all_results'[k] = all_results[k]
             /\ pc' = (IF chunk_i + 20 < Len(unique_barcodes) THEN "enrich" ELSE "infer")
             /\ failed_at' = "none"
             /\ exit_code' = -1
             /\ content' = content]_vars
    /\ [][pc = "infer" /\ content /= <<>> => pc' = "persist"]_vars
    /\ [](pc = "infer" => chunk_i >= Len(unique_barcodes))
    /\ [](pc = "enrich" => chunk_i < Len(unique_barcodes) /\ content /= <<>>)

\* The elements of a response that were handled before an element that is no
\* object stopped the handling.
HandledBeforeRaise(r) ==
    LET es == EntriesOf(r)
        bad == {i \in 1..Len(es) : ~es[i].isDict}
    IN  IF r.exc \/ r.status >= 400 \/ ~r.jsonOk \/ bad = {} THEN <<>>
        ELSE SubSeq(es, 1, (CHOOSE i \in bad : \A j \in bad : i <= j) - 1)

\* What holds of a failed chunk (C7 without "every entry is kept"): as above,
\* except that an earlier entry is kept unless the failing response itself
\* carried, before the element its handling raised on, an entry for the same
\* barcode, which then stands in its place; no barcode gathered before is
\* lost.
C7_FailedChunkIsSkipped ==
    /\ [][(pc = "enrich" /\ ChunkFailed(last_response'.r)) =>
             /\ chunk_i' = chunk_i + 20
             /\ Len(delays') <= Len(delays)
             /\ \A k \in DOMAIN all_results :
                    /\ k \in DOMAIN all_results'
                    /\ \/ all_results'[k] = all_results[k]
                       \/ \E i \in 1..Len(HandledBeforeRaise(last_response'.r)) :
                              /\ HandledBeforeRaise(last_response'.r)[i].barcode = k
                              /\ HandledBeforeRaise(last_response'.r)[i] = all_results'[k]
             /\ (HandledBeforeRaise(last_response'.r) = <<>> => all_results' = all_results)
             /\ pc' = (IF chunk_i + 20 < Len(unique_barcodes) THEN "enrich" ELSE "infer")
             /\ failed_at' = "none"
             /\ exit_code' = -1
             /\ content' = content]_vars
    /\ [][(pc = "infer" /\ content /= <<>>) => pc' = "persist"]_vars
    /\ [](pc = "infer" => chunk_i >= Len(unique_barcodes))
    /\ [](pc = "enrich" => chunk_i < Len(unique_barcodes))

\* The second chunk of a 21-barcode page failed after the first one had
\* delivered entries, and the page went on to persistence.
C7_Witness ==
    /\ pc = "persist"
    /\ chunk_i = 40
    /\ last_response.endpoint = "buybox"
    /\ ChunkFailed(last_response.r)
    /\ all_results /= EmptyMap

\* The item has no comparison entry under its barcode.
NoEntry(item, buybox_map) ==
    \/ ~Truthy(item.barcode)
    \/ PyStr(str(item.barcode)) \notin DOMAIN buybox_map

\* The sale price is usable: not null and numeric (a number, or text that
\* reads as one).
SalePriceUsable(v) ==
    \/ v.ty \in {"int", "dec"}
    \/ v.ty = "str" /\ strip(v.s) /= <<>> /\ \A i \in 1..Len(strip(v.s)) : IsDigit(strip(v.s)[i])

SalePriceValue(v) == IF v.ty = "str" THEN CharsToNat(strip(v.s)) ELSE v.n

\* C8: an item with no comparison entry for its barcode gets WIN, competitor
\* count 0 and its sale price as effective price when the sale price is
\* usable, and UNKNOWN with count and price unset otherwise; UNKNOWN comes
\* about in no other way.
C8_NoEntryRule ==
    pc = "persist" =>
        \A i \in 1..Len(content) :
            LET item == content[i] IN
            /\ (NoEntry(item, all_results) /\ SalePriceUsable(item.salePrice))
                   => /\ item.buybox_status = WIN
                      /\ item.buybox_competitor_count = PyInt(0)
                      /\ item.buybox_price = PyDec(SalePriceValue(item.salePrice))
            /\ (NoEntry(item, all_results) /\ ~SalePriceUsable(item.salePrice))
                   => /\ item.buybox_status = UNKNOWN
                      /\ item.buybox_competitor_count = PyNone
                      /\ item.buybox_price = PyNone
            /\ item.buybox_status = UNKNOWN
                   => NoEntry(item, all_results) /\ ~SalePriceUsable(item.salePrice)

\* A page whose items got no entry: the one with sale price 100 is WIN, the
\* one without a sale price is UNKNOWN.
C8_Witness ==
    /\ pc = "persist"
    /\ all_results = EmptyMap
    /\ Len(content) = 3
    /\ content[1].buybox_status = WIN
    /\ content[1].buybox_price = PyDec(100)
    /\ content[1].buybox_competitor_count = PyInt(0)
    /\ content[2].buybox_status = UNKNOWN
    /\ content[3].salePrice = PyStr(<<"a", "b", "c">>)
    /\ content[3].buybox_status = UNKNOWN

\* C9: an item with a comparison entry gets the entry's buybox price as
\* effective price, competitor count 2 when the entry's multiple-sellers flag
\* is true and 1 otherwise, WIN when the entry's rank is 1 and LOSE for every
\* other rank, a missing one included.
C9_EntryRule ==
    pc = "persist" =>
        \A i \in 1..Len(content) :
            LET item == content[i] IN
            ~NoEntry(item, all_results) =>
                LET entry == all_results[PyStr(str(item.barcode))] IN
                /\ item.buybox_price = entry.buyboxPrice
                /\ item.buybox_competitor_count =
                       (IF entry.hasMultipleSeller = PyBool(TRUE) THEN PyInt(2) ELSE PyInt(1))
                /\ item.buybox_status = (IF entry.buyboxOrder = PyInt(1) THEN WIN ELSE LOSE)

\* Items classified from entries: one with flag true and rank 2 (LOSE, 2, the
\* entry's price) next to one with no rank (LOSE) and one with rank 1 and the
\* flag missing (WIN, 1).
C9_Witness ==
    /\ pc = "persist"
    /\ \E i \in 1..Len(content) :
          /\ ~NoEntry(content[i], all_results)
          /\ all_results[PyStr(str(content[i].barcode))].hasMultipleSeller = PyBool(TRUE)
          /\ all_results[PyStr(str(content[i].barcode))].buyboxOrder = PyInt(2)
          /\ content[i].buybox_status = LOSE
          /\ content[i].buybox_competitor_count = PyInt(2)
          /\ content[i].buybox_price = PyInt(95)
    /\ \E i \in 1..Len(content) :
          /\ ~NoEntry(content[i], all_results)
          /\ all_results[PyStr(str(content[i].barcode))].buyboxOrder = PyNone
          /\ content[i].buybox_status = LOSE
    /\ \E i \in 1..Len(content) :
          /\ ~NoEntry(content[i], all_results)
          /\ all_results[PyStr(str(content[i].barcode))].hasMultipleSeller = PyNone
          /\ all_results[PyStr(str(content[i].barcode))].buyboxOrder = PyInt(1)
          /\ content[i].buybox_status = WIN
          /\ content[i].buybox_competitor_count = PyInt(1)

\* C10: every merged record with status WIN has an effective price.
C10_WinHasPrice ==
    pc = "persist" =>
        \A i \in 1..Len(content) :
            content[i].buybox_status = WIN => content[i].buybox_price /= PyNone

\* The rows a page's batch leaves under its keys, the last record of a key
\* standing for it.
PageTable(items) == ApplyRows(EmptyMap, RowsOf(items))

\* The keys of the page whose row, as the page wrote it, is in the table.
VisibleKeys(items, table) ==
    {k \in DOMAIN PageTable(items) : k \in DOMAIN table /\ table[k] = PageTable(items)[k]}

C12_EmptyPageEndsRun ==
    /\ [][(pc = "fetch" /\ pc' \notin {"fetch", "FAILED"} /\ content' = <<>>) =>
             pc' = "infer" /\ unique_barcodes' = <<>> /\ all_results' = EmptyMap]_vars
    /\ [](pc = "infer" /\ content = <<>> => last_response.endpoint = "catalog")
    /\ [][(pc = "infer" /\ content = <<>>) =>
             /\ pc' = "DONE"
             /\ exit_code' = 0
             /\ store' = store
             /\ txn' = txn
             /\ upserted' = upserted
             /\ requested' = requested
             /\ page' = page
             /\ db_ops' = db_ops \o (IF db_conn = "open" THEN <<"close">> ELSE <<>>)]_vars
    /\ [](pc = "DONE" => ~ENABLED CatalogRequest /\ ~ENABLED BuyboxRequest)

\* The first page of a writing run that could have fetched more came back
\* with an empty list: DONE after connect, create, commit and close alone.
C12_Witness ==
    /\ pc = "DONE"
    /\ exit_code = 0
    /\ ~dry_run
    /\ max_pages = MaxPagesArg
    /\ page = 0
    /\ requested = {0}
    /\ total_pages = PyNone
    /\ last_response.endpoint = "catalog"
    /\ last_response.r.content = [kind |-> "list", items |-> <<>>]
    /\ db_ops = <<"connect", "create", "commit", "close">>

\* C13: a successful catalog response whose body is no mapping, or whose
\* content is present and no list (truthy or falsy alike), ends the run
\* FAILED with exit code 1.
C13_MalformedPayloadIsFatal ==
    (/\ last_response.endpoint = "catalog"
     /\ ~last_response.r.exc
     /\ last_response.r.status < 400
     /\ last_response.r.jsonOk
     /\ \/ ~last_response.r.isDict
        \/ last_response.r.content.kind \in {"falsy", "truthy"})
    => pc = "FAILED" /\ exit_code = 1

\* The identifiers of the enrichment call, as the keys they would be stored
\* under.
RequestedKeys == {PyStr(unique_barcodes[i]) : i \in 1..Len(unique_barcodes)}

\* C14: the keys of the enrichment mapping are among the deduplicated
\* identifiers that were requested, whatever the responses contain.
C14_KeysWereRequested == DOMAIN all_results \subseteq RequestedKeys

\* The chunk's response was parsed to its end: a success status, a JSON body,
\* no null buyboxInfo and only objects as elements.
ParsedOk(r) ==
    /\ ~r.exc
    /\ r.status < 400
    /\ r.jsonOk
    /\ ~(r.shape = "dict" /\ r.info = "null")
    /\ \A i \in 1..Len(r.entries) : r.entries[i].isDict

\* The elements of the response: of the buyboxInfo list or of the bare list.
ListedEntries(r) ==
    IF (r.shape = "dict" /\ r.info = "list") \/ r.shape = "list" THEN r.entries ELSE <<>>

\* The entry carries a barcode.
Named(e) == e.barcode /= PyNone /\ e.barcode /= PyStr(<<>>)

\* The last element of es that carries the barcode k.
LastFor(es, k) ==
    es[CHOOSE i \in 1..Len(es) :
           es[i].barcode = k /\ \A j \in 1..Len(es) : es[j].barcode = k => j <= i]

IdentifiersOf(items) ==
    {strip(str(items[i].barcode)) :
        i \in {j \in 1..Len(items) : Truthy(items[j].barcode)}} \ {<<>>}

RECURSIVE Flatten(_)
\* The chunks laid end to end.
Flatten(chunks) == IF chunks = <<>> THEN <<>> ELSE Head(chunks) \o Flatten(Tail(chunks))

\* C16: the identifiers the chunk requests of one enrichment call carry are
\* exactly the deduplicated, stripped, non-blank input identifiers.  The list
\* to send holds each of them once; every chunk sent has 1 to 20 of them and
\* no identifier is in two chunks; when the call has returned, ceil(N / 20)
\* chunks were sent and together they carry all N; with nothing to send no
\* request is made and the mapping is empty.
C16_ChunksCoverIdentifiers ==
    pc \in {"enrich", "infer", "persist"} =>
        LET N == Len(unique_barcodes)
            all == Flatten(sent)
        IN  /\ Range(unique_barcodes) = IdentifiersOf(content)
            /\ Cardinality(Range(unique_barcodes)) = N
            /\ \A c \in 1..Len(sent) : Len(sent[c]) >= 1 /\ Len(sent[c]) <= 20
            /\ \A i, j \in 1..Len(all) : i /= j => all[i] /= all[j]
            /\ Range(all) \subseteq IdentifiersOf(content)
            /\ pc = "enrich" => Len(sent) = (chunk_i \div 20) + (IF attempt > 0 THEN 1 ELSE 0)
            /\ pc \in {"infer", "persist"} =>
                   /\ Len(sent) = (N + 19) \div 20
                   /\ Range(all) = IdentifiersOf(content)
            /\ N = 0 =>
                   /\ sent = <<>>
                   /\ all_results = EmptyMap
                   /\ last_response.endpoint = "catalog"

\* 21 identifiers went out in two chunks, of 20 and of 1.
C16_Witness ==
    /\ pc = "infer"
    /\ Len(unique_barcodes) = 21
    /\ Len(sent) = 2
    /\ Len(sent[1]) = 20
    /\ Len(sent[2]) = 1
    /\ sent[2][1] \notin Range(sent[1])

\* The field is blank: missing or null, or text of nothing but spaces.
Blank(v) == v = PyNone \/ (v.ty = "str" /\ \A i \in 1..Len(v.s) : v.s[i] = " ")

\* C17: the business key of an item is its first non-blank field in the
\* order product code, stock code, barcode, id (as text), and there is no key
\* exactly when all four are blank.
C17_FirstNonBlankField ==
    probe.called =>
        LET fields == <<probe.item.productCode, probe.item.stockCode,
                        probe.item.barcode, probe.item.id>>
            filled == {i \in 1..4 : ~Blank(fields[i])}
        IN  /\ (probe.key = PyNone) <=> (filled = {})
            /\ \A i \in filled :
                   (\A j \in filled : i <= j) => probe.key = PyStr(str(fields[i]))

\* Product code of spaces, empty stock code, no barcode, id 0: the key is "0".
C17_Witness ==
    /\ probe.called
    /\ probe.item.productCode = PyStr(<<" ">>)
    /\ probe.item.stockCode = PyStr(<<>>)
    /\ probe.item.barcode = PyNone
    /\ probe.item.id = PyInt(0)
    /\ probe.key = PyStr(<<"0">>)

\* The records of the batch that have a business key.
Keyed(items) == {i \in 1..Len(items) : ~Blank(product_code_from_item(items[i]))}

\* C18: upsert_products, called for a page by a run that writes, does not
\* raise; it writes the records that have a business key (their rows are in
\* the transaction, which main() commits) and adds their number to the
\* total; with no keyed record it executes nothing and adds 0.
C18_UpsertWritesKeyedRecords ==
    [][(pc = "persist" /\ ~dry_run) =>
          /\ pc' /= "FAILED"
          /\ upserted' = upserted + Cardinality(Keyed(content))
          /\ Keyed(content) = {} =>
                 /\ store' = store
                 /\ db_ops' \in {db_ops \o <<"commit">>, db_ops \o <<"commit", "close">>}
          /\ Keyed(content) /= {} =>
                 /\ VisibleKeys(content, store') = DOMAIN PageTable(content)
                 /\ \E i \in 1..Len(db_ops') : db_ops'[i] = "executemany"]_vars

\* C20: after a record is upserted the row of its key holds exactly the new
\* record's values, whatever row the key had before, and the key has one row.
C20_FullReplace ==
    [][(pc = "persist" /\ ~dry_run) =>
          \A k \in DOMAIN PageTable(content) :
              /\ k \in DOMAIN store'
              /\ store'[k] = PageTable(content)[k]
              /\ \A c \in DOMAIN store'[k] : store'[k][c] = PageTable(content)[k][c]]_vars

\* C21: no step of a run, be it dry, successful or failed, takes a key out
\* of the store, and the row of a key the page at hand does not carry stays
\* as it was; a run started on any store therefore ends with every row it
\* found, and so does any sequence of runs.
C21_NoRowDeleted ==
    [][\A k \in DOMAIN store :
           /\ k \in DOMAIN store'
           /\ k \notin DOMAIN PageTable(content) => store'[k] = store[k]]_vars

\* A writing run committed two pages that do not carry the product the table
\* held before, and ended DONE: the old row is there unchanged.
C21_Witness ==
    /\ pc = "DONE"
    /\ ~dry_run
    /\ page = 1
    /\ content /= <<>>
    /\ OldRow.product_code \notin DOMAIN PageTable(content)
    /\ store = MapPut(EmptyMap, OldRow.product_code, OldRow)
    /\ \E i, j \in 1..Len(db_ops) : i + 1 < j /\ db_ops[i] = "commit" /\ db_ops[j] = "commit"

\* Where the page loop goes once a page's items are inferred, by the paging
\* rule alone: the persistence aside, the step of a dry run.
AfterPage ==
    IF (total_pages.ty = "int" /\ page + 1 >= total_pages.n) \/ page + 1 >= max_pages
    THEN "DONE" ELSE "fetch"

\* C22: a dry run opens no connection, writes and commits nothing, leaves the
\* store unchanged and exits 0 when the loop ends DONE; and a normal run that
\* gets its connection goes, on the same responses, where the dry run goes:
\* into the page loop from the start, and from each inferred page to the next
\* fetch or to DONE with exit code 0, so that both issue the same requests.
C22_DryRunMatchesNormalRun ==
    /\ [](dry_run => db_conn = "None" /\ db_ops = <<>> /\ txn = store)
    /\ [][dry_run => store' = store]_vars
    /\ [](dry_run /\ pc = "DONE" => exit_code = 0)
    /\ [][(pc = "start" /\ failed_at' /= "connect") =>
             pc' = (IF 0 < max_pages THEN "fetch" ELSE "DONE")]_vars
    /\ [][pc = "persist" =>
             /\ pc' = AfterPage
             /\ requested' = requested
             /\ exit_code' = (IF AfterPage = "DONE" THEN 0 ELSE -1)]_vars

\* The order of the steps of main(): from each position, the positions the
\* next step can lead to.
StepOrder ==
    {<<"start", "fetch">>, <<"start", "DONE">>, <<"start", "FAILED">>,
     <<"fetch", "enrich">>, <<"fetch", "infer">>, <<"fetch", "FAILED">>,
     <<"enrich", "infer">>,
     <<"infer", "persist">>, <<"infer", "DONE">>,
     <<"persist", "fetch">>, <<"persist", "DONE">>, <<"persist", "FAILED">>}

\* C23: the page indices fetched are 0, 1, 2, ... in order, none skipped and
\* none fetched again but for the retry of a 429; and the steps of a page
\* come in the order fetch, one enrichment call (one pass over its chunks, or
\* none when there is nothing to ask for), inference of every item, one
\* persistence call, whose commit a writing run makes before the next fetch.
\* The page index moves by one, and only from the persistence of a page.
C23_PagesInOrder ==
    /\ [](requested \in {0..(page - 1), 0..page})
    /\ [][pc = "fetch" =>
             /\ requested' = requested \cup {page}
             /\ 0..(page - 1) \subseteq requested
             /\ page \in requested =>
                    /\ tries > 0
                    /\ last_response.endpoint = "catalog"
                    /\ last_response.r.status = 429]_vars
    /\ [][pc /= "fetch" => requested' = requested]_vars
    /\ [][page' \in {page, page + 1}]_vars
    /\ [][page' = page + 1 => pc = "persist" /\ content /= <<>>]_vars
    /\ [][pc' /= pc => <<pc, pc'>> \in StepOrder]_vars
    /\ [][(pc = "fetch" /\ pc' = "infer") => unique_barcodes' = <<>>]_vars
    /\ [][pc = "enrich" =>
             \/ chunk_i' = chunk_i + 20 /\ pc' \in {"enrich", "infer"}
             \/ chunk_i' = chunk_i /\ attempt' = attempt + 1 /\ pc' = "enrich"]_vars
    /\ [][(pc = "infer" /\ content /= <<>>) =>
             /\ Len(content') = Len(content)
             /\ \A i \in 1..Len(content') :
                    content'[i].buybox_status \in {WIN, LOSE, UNKNOWN}]_vars
    /\ [](pc \in {"fetch", "enrich", "infer"} =>
             \A i \in 1..Len(content) : content[i].buybox_status = PyNone)
    /\ [][(pc = "persist" /\ pc' = "fetch" /\ ~dry_run) =>
             db_ops' \in {db_ops \o <<"commit">>, db_ops \o <<"executemany", "commit">>}]_vars

\* A writing run fetched page 0 and page 1, each once and in this order, went
\* through enrichment, inference and persistence for both and ended DONE.
C23_Witness ==
    /\ pc = "DONE"
    /\ ~dry_run
    /\ page = 1
    /\ requested = {0, 1}
    /\ content /= <<>>
    /\ \A i \in 1..Len(content) : content[i].buybox_status \in {WIN, LOSE, UNKNOWN}
    /\ db_ops[Len(db_ops) - 1] = "commit"

\* The identifier sent for the item: its barcode as text, whitespace
\* stripped, as the key an entry for it is stored under.
SentIdentifier(item) == PyStr(strip(str(item.barcode)))

\* C24: an item for whose sent identifier the enrichment mapping holds an
\* entry is classified from that entry: WIN or LOSE by its rank, with its
\* buybox price and its count, never UNKNOWN and never by the sale price.
C24_ClassifiedFromSentIdentifier ==
    pc = "persist" =>
        \A i \in 1..Len(content) :
            LET item == content[i] IN
            (/\ Truthy(item.barcode)
             /\ SentIdentifier(item) /= PyStr(<<>>)
             /\ SentIdentifier(item) \in DOMAIN all_results)
            => LET entry == all_results[SentIdentifier(item)] IN
               /\ item.buybox_status = (IF entry.buyboxOrder = PyInt(1) THEN WIN ELSE LOSE)
               /\ item.buybox_price = entry.buyboxPrice
               /\ item.buybox_competitor_count \in {PyInt(1), PyInt(2)}

\* The last record of the page that resolves to the business key k.
LastRecordFor(items, k) ==
    items[CHOOSE i \in Keyed(items) :
              /\ product_code_from_item(items[i]) = k
              /\ \A j \in Keyed(items) : product_code_from_item(items[j]) = k => j <= i]

\* C25: when records of a page share a business key, a writing run persists
\* under that key the row of the last of them in page order, and adds to the
\* upserted total one for each keyed record, more than the rows written.
C25_LastDuplicateWins ==
    [][(/\ pc = "persist"
        /\ ~dry_run
        /\ Cardinality(Keyed(content)) > Cardinality(DOMAIN PageTable(content))) =>
          /\ \A k \in DOMAIN PageTable(content) :
                 k \in DOMAIN store' /\ store'[k] = RowOf(LastRecordFor(content, k))
          /\ upserted' = upserted + Cardinality(Keyed(content))
          /\ upserted' - upserted > Cardinality(DOMAIN PageTable(content))]_vars

\* A statement appears among the calls made on the connection.
Called(op) == \E i \in 1..Len(db_ops) : db_ops[i] = op

\* Each element of the list occurs once in it.
NamedOnce(columns) ==
    \A i \in 1..Len(columns) :
        Cardinality({j \in 1..Len(columns) : columns[j] = columns[i]}) = 1

\* C26: the statements a normal run sends are well-formed, CREATE TABLE with
\* each column defined once, the upsert with each column named once in its
\* INSERT list and in its SET list and one value for each listed column, and
\* the run fails neither when it creates the schema nor when it persists a
\* page.
C26_StatementsWellFormed ==
    /\ Called("create") => NamedOnce(CREATE_TABLE_SQL_Columns)
    /\ Called("executemany") =>
           /\ NamedOnce(UPSERT_SQL_Columns)
           /\ NamedOnce(UPSERT_SQL_Set)
           /\ Len(UPSERT_SQL_Values) = Len(UPSERT_SQL_Columns)
    /\ failed_at \notin {"schema", "persist"}

=============================================================================
